---- MODULE Spec2Model ----
(***************************************************************************)
(* Learning-progress engine of the Reading Buddy app (kids-tutor).         *)
(*                                                                         *)
(* The model covers one signed-in user on one calendar date:               *)
(*   - the client hook useLearningSession (startSession, addWordToSession, *)
(*     endSession with its four downstream steps),                         *)
(*   - the hook useLevelProgression (checkLevelProgression),               *)
(*   - the SQL functions update_word_progress, update_user_stats and the   *)
(*     registration trigger handle_new_user.                               *)
(*                                                                         *)
(* Numbers: accuracy_rate is numeric(5,2) and is kept in hundredths of a   *)
(* percent; a session accuracy is the rational <<100 * correct, attempts>>.*)
(* The column word_progress.difficulty and the session type are carried    *)
(* through by the code unchanged and are left out.                         *)
(***************************************************************************)
EXTENDS Integers, Sequences, FiniteSets, TLC

VARIABLES
    profile,            \* the row of table profiles of the user
    word_progress,      \* table word_progress: sequence of rows in insertion order
    otherMastered,      \* number of further word_progress rows with mastery_level >= 75
    daily_goals,        \* table daily_goals restricted to today: a set of rows
    achievements,       \* table achievements: sequence of inserted rows
    learning_sessions,  \* table learning_sessions: today's rows in insertion order
    settings,           \* useSettings().settings: <<>> (null) or <<the app_settings row>>
    session,            \* the client's currentSession: <<>> (null) or <<the accumulator>>
    pending,            \* update_word_progress rpc calls in flight: call -> count
    issued,             \* history: calls issued per word, <<n, k>> (k of them correct)
    executed,           \* history: calls executed per word, <<n, k>>
    raced,              \* history: per word, a call was executed while another was in flight
    currentLevel,       \* useLevelProgression state
    nextLevelRequirements, \* useLevelProgression state: level of the ladder entry, 0 = null
    progressToNextLevel, \* useLevelProgression state
    lastOp,             \* history: the last operation that reached the database
    user,               \* useAuth().user is set (signed in)
    ending,             \* the endSession call in progress: <<>> or <<its position and arguments>>
    evals               \* the level evaluations in progress: what each has read so far

vars == <<profile, word_progress, otherMastered, daily_goals, achievements,
          learning_sessions, settings, session, pending, issued, executed, raced,
          currentLevel, nextLevelRequirements, progressToNextLevel, lastOp, user,
          ending, evals>>

----------------------------------------------------------------------------
(* Bounds of the model *)

MaxAttempts == 2        \* attempts recorded on the modelled date
MaxPending  == 2        \* update_word_progress calls in flight at once
MaxSessions == 2        \* learning_sessions rows of the date, where empty sessions are ended

(* Inputs *)

Words      == {"Cat", "dog"}              \* words as the caller passes them
SessionSeconds == <<59, 61, 150>>         \* Date.now() - startTime of the date's sessions, in seconds
NoSession  == <<>>
NoSettings == <<>>
NotEnding  == <<>>
NoEvals    == <<>>
GoalTypes  == {"words", "time", "accuracy"}

ToLowerCase(w) == IF w = "Cat" THEN "cat" ELSE w

LowerWords == {ToLowerCase(w) : w \in Words}
Calls      == LowerWords \X BOOLEAN

Max(a, b) == IF a >= b THEN a ELSE b
Min(a, b) == IF a <= b THEN a ELSE b

----------------------------------------------------------------------------
(* update_word_progress (SQL) *)

\* variant of MasteryCase without the times_practiced gates
MasteryCase_NoGate(c, p) ==
    IF 10 * c >= 9 * p THEN 100
    ELSE IF 10 * c >= 7 * p THEN 75
    ELSE IF 10 * c >= 5 * p THEN 50
    ELSE 25

\* the CASE expression of the DO UPDATE branch, on the post-increment counts;
\* c::float / p >= 0.9 is 10 * c >= 9 * p (IEEE division is correctly rounded)
MasteryCase(c, p) ==
    IF 10 * c >= 9 * p /\ p >= 5 THEN 100
    ELSE IF 10 * c >= 7 * p /\ p >= 3 THEN 75
    ELSE IF 10 * c >= 5 * p THEN 50
    ELSE 25

\* column default of word_progress.mastery_level
MasteryDefault == 0

\* variant of update_word_progress whose DO UPDATE branch counts every
\* attempt as correct
update_word_progress_CountsAll(rows, p_word, p_correct) ==
    LET inc == IF p_correct THEN 1 ELSE 0 IN
    IF \E i \in 1..Len(rows) : rows[i].word = p_word
    THEN LET i == CHOOSE j \in 1..Len(rows) : rows[j].word = p_word
             r == rows[i]
         IN [rows EXCEPT ![i] =
               [word            |-> r.word,
                times_practiced |-> r.times_practiced + 1,
                times_correct   |-> r.times_correct + 1,
                mastery_level   |-> MasteryCase(r.times_correct + 1,
                                                r.times_practiced + 1)]]
    ELSE Append(rows, [word            |-> p_word,
                       times_practiced |-> 1,
                       times_correct   |-> inc,
                       mastery_level   |-> MasteryDefault])

\* variant of update_word_progress without the ON CONFLICT clause
update_word_progress_NoConflict(rows, p_word, p_correct) ==
    Append(rows, [word            |-> p_word,
                  times_practiced |-> 1,
                  times_correct   |-> IF p_correct THEN 1 ELSE 0,
                  mastery_level   |-> MasteryDefault])

\* INSERT ... ON CONFLICT (user_id, word) DO UPDATE, one atomic statement
update_word_progress(rows, p_word, p_correct) ==
    LET inc == IF p_correct THEN 1 ELSE 0 IN
    IF \E i \in 1..Len(rows) : rows[i].word = p_word
    THEN LET i == CHOOSE j \in 1..Len(rows) : rows[j].word = p_word
             r == rows[i]
         IN [rows EXCEPT ![i] =
               [word            |-> r.word,
                times_practiced |-> r.times_practiced + 1,
                times_correct   |-> r.times_correct + inc,
                mastery_level   |-> MasteryCase(r.times_correct + inc,
                                                r.times_practiced + 1)]]
    ELSE Append(rows, [word            |-> p_word,
                       times_practiced |-> 1,
                       times_correct   |-> inc,
                       mastery_level   |-> MasteryDefault])

\* rows of the user with mastery_level >= 75 (the select of both evaluators)
MasteredWords(rows, other) ==
    Cardinality({i \in 1..Len(rows) : rows[i].mastery_level >= 75}) + other

RECURSIVE ApplyCalls(_, _, _)
ApplyCalls(rows, w, cs) ==
    IF cs = <<>> THEN rows
    ELSE ApplyCalls(update_word_progress(rows, w, Head(cs)), w, Tail(cs))

----------------------------------------------------------------------------
(* The level ladders *)

\* useLevelProgression: LEVEL_REQUIREMENTS
LEVEL_REQUIREMENTS == <<
    [level |-> 1,  minWordsLearned |-> 0,    minAccuracy |-> 0,  minStreakDays |-> 0,   minPracticeTime |-> 0],
    [level |-> 2,  minWordsLearned |-> 25,   minAccuracy |-> 60, minStreakDays |-> 3,   minPracticeTime |-> 30],
    [level |-> 3,  minWordsLearned |-> 75,   minAccuracy |-> 70, minStreakDays |-> 7,   minPracticeTime |-> 90],
    [level |-> 4,  minWordsLearned |-> 150,  minAccuracy |-> 75, minStreakDays |-> 14,  minPracticeTime |-> 180],
    [level |-> 5,  minWordsLearned |-> 250,  minAccuracy |-> 80, minStreakDays |-> 21,  minPracticeTime |-> 300],
    [level |-> 6,  minWordsLearned |-> 400,  minAccuracy |-> 85, minStreakDays |-> 30,  minPracticeTime |-> 480],
    [level |-> 7,  minWordsLearned |-> 600,  minAccuracy |-> 88, minStreakDays |-> 45,  minPracticeTime |-> 720],
    [level |-> 8,  minWordsLearned |-> 850,  minAccuracy |-> 90, minStreakDays |-> 60,  minPracticeTime |-> 1000],
    [level |-> 9,  minWordsLearned |-> 1200, minAccuracy |-> 92, minStreakDays |-> 90,  minPracticeTime |-> 1440],
    [level |-> 10, minWordsLearned |-> 1500, minAccuracy |-> 95, minStreakDays |-> 120, minPracticeTime |-> 2000] >>

\* useLearningSession.checkLevelProgression: the inline levelRequirements
levelRequirements == <<
    [level |-> 1,  words |-> 0,    accuracy |-> 0,  streak |-> 0,   time |-> 0],
    [level |-> 2,  words |-> 25,   accuracy |-> 60, streak |-> 3,   time |-> 30],
    [level |-> 3,  words |-> 75,   accuracy |-> 70, streak |-> 7,   time |-> 90],
    [level |-> 4,  words |-> 150,  accuracy |-> 75, streak |-> 14,  time |-> 180],
    [level |-> 5,  words |-> 250,  accuracy |-> 80, streak |-> 21,  time |-> 300],
    [level |-> 6,  words |-> 400,  accuracy |-> 85, streak |-> 30,  time |-> 480],
    [level |-> 7,  words |-> 600,  accuracy |-> 88, streak |-> 45,  time |-> 720],
    [level |-> 8,  words |-> 850,  accuracy |-> 90, streak |-> 60,  time |-> 1000],
    [level |-> 9,  words |-> 1200, accuracy |-> 92, streak |-> 90,  time |-> 1440],
    [level |-> 10, words |-> 1500, accuracy |-> 95, streak |-> 120, time |-> 2000] >>

\* Math.floor(profile.total_practice_time / 60)
PracticeTimeMinutes(p) == p.total_practice_time \div 60

\* variant of MeetsRequirements with a strict accuracy comparison
MeetsRequirements_StrictAccuracy(requirement, masteredWords, p) ==
    /\ masteredWords >= requirement.minWordsLearned
    /\ p.accuracy_rate > 100 * requirement.minAccuracy
    /\ p.current_streak >= requirement.minStreakDays
    /\ PracticeTimeMinutes(p) >= requirement.minPracticeTime

\* the hook's test of one ladder entry (accuracy_rate is in hundredths)
MeetsRequirements(requirement, masteredWords, p) ==
    /\ masteredWords >= requirement.minWordsLearned
    /\ p.accuracy_rate >= 100 * requirement.minAccuracy
    /\ p.current_streak >= requirement.minStreakDays
    /\ PracticeTimeMinutes(p) >= requirement.minPracticeTime

\* the hook's loop: qualifiedLevel starts at 1, the walk breaks at the first
\* entry that is not met
RECURSIVE LadderWalk(_, _, _, _)
LadderWalk(i, qualifiedLevel, masteredWords, p) ==
    IF i > Len(LEVEL_REQUIREMENTS) THEN qualifiedLevel
    ELSE IF MeetsRequirements(LEVEL_REQUIREMENTS[i], masteredWords, p)
         THEN LadderWalk(i + 1, LEVEL_REQUIREMENTS[i].level, masteredWords, p)
         ELSE qualifiedLevel

QualifiedLevel(masteredWords, p) == LadderWalk(1, 1, masteredWords, p)

\* the same test and loop of useLearningSession.checkLevelProgression
SessionMeetsRequirements(requirement, masteredWords, p) ==
    /\ masteredWords >= requirement.words
    /\ p.accuracy_rate >= 100 * requirement.accuracy
    /\ p.current_streak >= requirement.streak
    /\ PracticeTimeMinutes(p) >= requirement.time

RECURSIVE SessionLadderWalk(_, _, _, _)
SessionLadderWalk(i, qualifiedLevel, masteredWords, p) ==
    IF i > Len(levelRequirements) THEN qualifiedLevel
    ELSE IF SessionMeetsRequirements(levelRequirements[i], masteredWords, p)
         THEN SessionLadderWalk(i + 1, levelRequirements[i].level, masteredWords, p)
         ELSE qualifiedLevel

SessionQualifiedLevel(masteredWords, p) == SessionLadderWalk(1, 1, masteredWords, p)

----------------------------------------------------------------------------
(* Progress to the next level: calculateProgressToNextLevel computes with   *)
(* JavaScript numbers. A number is kept here as the natural n with value    *)
(* n / 2^75, written in six digits of base 2^15, lowest digit first; every  *)
(* result of a division, an addition or a multiplication is rounded to 53   *)
(* significant bits, ties to even, as IEEE 754 binary64 does. The numbers   *)
(* of this computation are below 128 and, when not 0, above 2^-14, so the   *)
(* rounded results are exact in this form.                                  *)

Base == 32768
DoubleZero == <<0, 0, 0, 0, 0, 0>>

\* the number of an integer below 2^15
DoubleOfInt(n) == <<0, 0, 0, 0, 0, n>>

\* six digits from six naturals, the carries moved up
Carried(a1, a2, a3, a4, a5, a6) ==
    LET b2 == a2 + (a1 \div Base)
        b3 == a3 + (b2 \div Base)
        b4 == a4 + (b3 \div Base)
        b5 == a5 + (b4 \div Base)
        b6 == a6 + (b5 \div Base)
    IN <<a1 % Base, b2 % Base, b3 % Base, b4 % Base, b5 % Base, b6>>

\* the exact sum of two numbers
DigitsSum(x, y) ==
    Carried(x[1] + y[1], x[2] + y[2], x[3] + y[3], x[4] + y[4], x[5] + y[5], x[6] + y[6])

\* the exact product of a number and a small integer
DigitsTimes(x, k) ==
    Carried(x[1] * k, x[2] * k, x[3] * k, x[4] * k, x[5] * k, x[6] * k)

\* the quotient of a number by a small integer r > 0, rounded down to a
\* multiple of 2^-75, and whether digits were lost
DigitsQuotient(x, r) ==
    LET a6 == x[6]
        a5 == (a6 % r) * Base + x[5]
        a4 == (a5 % r) * Base + x[4]
        a3 == (a4 % r) * Base + x[3]
        a2 == (a3 % r) * Base + x[2]
        a1 == (a2 % r) * Base + x[1]
    IN [digits |-> <<a1 \div r, a2 \div r, a3 \div r, a4 \div r, a5 \div r, a6 \div r>>,
        inexact |-> a1 % r # 0]

\* the number of bits of a digit
BitLength(n) ==
    IF n < 128
    THEN (IF n < 8 THEN (IF n < 2 THEN n ELSE IF n < 4 THEN 2 ELSE 3)
          ELSE IF n < 32 THEN (IF n < 16 THEN 4 ELSE 5)
          ELSE IF n < 64 THEN 6 ELSE 7)
    ELSE (IF n < 2048
          THEN (IF n < 512 THEN (IF n < 256 THEN 8 ELSE 9)
                ELSE IF n < 1024 THEN 10 ELSE 11)
          ELSE IF n < 8192 THEN (IF n < 4096 THEN 12 ELSE 13)
          ELSE IF n < 16384 THEN 14 ELSE 15)

\* the highest digit that is not 0
TopDigit(x) ==
    IF x[6] # 0 THEN 6 ELSE IF x[5] # 0 THEN 5 ELSE IF x[4] # 0 THEN 4
    ELSE IF x[3] # 0 THEN 3 ELSE IF x[2] # 0 THEN 2 ELSE 1

\* round to nearest, ties to even, at 53 significant bits; inexact tells that
\* the value lies above the digits given
RoundToDouble(x, inexact) ==
    IF x = DoubleZero THEN x
    ELSE LET top == TopDigit(x)
             dropped == 15 * (top - 1) + BitLength(x[top]) - 53
         IN IF dropped <= 0 THEN x
            ELSE LET unit == 2^dropped
                     low2 == x[1] + Base * x[2]
                     low == low2 % unit
                     odd == (low2 \div unit) % 2 = 1
                     up == \/ 2 * low > unit
                           \/ 2 * low = unit /\ (inexact \/ odd)
                     kept == low2 - low + (IF up THEN unit ELSE 0)
                 IN Carried(kept % Base, kept \div Base, x[3], x[4], x[5], x[6])

\* x / r for a number x and an integer r > 0
DoubleDivide(x, r) ==
    LET q == DigitsQuotient(x, r) IN RoundToDouble(q.digits, q.inexact)

DoubleAdd(x, y) == RoundToDouble(DigitsSum(x, y), FALSE)

DoubleTimes(x, k) == RoundToDouble(DigitsTimes(x, k), FALSE)

\* Math.floor of a number
DoubleFloor(x) == x[6]

\* Math.min(current / required, 1) for integers, required > 0
ProgressMetric(current, required) ==
    IF current >= required THEN DoubleOfInt(1)
    ELSE DoubleDivide(DoubleOfInt(current), required)

\* the same for profile.accuracy_rate, the number nearest to the hundredths
\* of the column
AccuracyMetric(accuracy_rate, minAccuracy) ==
    IF accuracy_rate >= 100 * minAccuracy THEN DoubleOfInt(1)
    ELSE DoubleDivide(DoubleDivide(DoubleOfInt(accuracy_rate), 100), minAccuracy)

\* useLevelProgression.calculateProgressToNextLevel; the entries it is called
\* with have no requirement of 0
calculateProgressToNextLevel(current, requirement) ==
    LET progressMetrics == <<
            ProgressMetric(current.wordsLearned, requirement.minWordsLearned),
            AccuracyMetric(current.accuracy, requirement.minAccuracy),
            ProgressMetric(current.streak, requirement.minStreakDays),
            ProgressMetric(current.practiceTime, requirement.minPracticeTime) >>
        \* reduce((sum, metric) => sum + metric, 0)
        sum1 == DoubleAdd(DoubleZero, progressMetrics[1])
        sum2 == DoubleAdd(sum1, progressMetrics[2])
        sum3 == DoubleAdd(sum2, progressMetrics[3])
        sum4 == DoubleAdd(sum3, progressMetrics[4])
    IN DoubleFloor(DoubleTimes(DoubleDivide(sum4, Len(progressMetrics)), 100))

----------------------------------------------------------------------------
(* Level-up writes *)

LevelUpTitle(newLevel) == <<"Level", newLevel, "Reached!">>

LevelUpDescription(newLevel) ==
    <<"Congratulations! You've advanced to Level", newLevel,
      ". Keep up the amazing work!">>

\* characters outside ASCII are written as their code points

\* useLevelProgression.getLevelIcon
getLevelIcon(level) ==
    LET icons == << <<"U+1F331">>, <<"U+1F33F">>, <<"U+1F333">>, <<"U+2B50">>,
                    <<"U+1F31F">>, <<"U+1F4AB">>, <<"U+1F3C6">>, <<"U+1F451">>,
                    <<"U+1F48E">>, <<"U+1F525">> >>
    IN icons[Min(level - 1, Len(icons) - 1) + 1]

\* useLearningSession.getLevelIcon
SessionGetLevelIcon(level) ==
    LET icons == << <<"U+00F0", "U+0178", "U+0152", "U+00B1">>,
                    <<"U+00F0", "U+0178", "U+0152", "U+00BF">>,
                    <<"U+00F0", "U+0178", "U+0152", "U+00B3">>,
                    <<"U+00E2", "U+00AD">>,
                    <<"U+00F0", "U+0178", "U+0152", "U+0178">>,
                    <<"U+00F0", "U+0178", "U+2019", "U+00AB">>,
                    <<"U+00F0", "U+0178", "U+2020">>,
                    <<"U+00F0", "U+0178", "U+2018", "U+2018">>,
                    <<"U+00F0", "U+0178", "U+2019", "U+017D">>,
                    <<"U+00F0", "U+0178", "U+201D", "U+00A5">> >>
    IN icons[Min(level - 1, Len(icons) - 1) + 1]

Level5Description == "You've reached Level 5! You're becoming a reading expert!"
Level10Description ==
    "Amazing! You've reached the highest level! You're a true reading champion!"

\* variant of updateUserLevel whose update matches no row
updateUserLevel_NoRow(p, newLevel) == p

\* useLevelProgression.updateUserLevel
updateUserLevel(p, newLevel) == [p EXCEPT !.level = newLevel]

\* useLevelProgression.awardLevelUpAchievement: the rows it inserts, in order
awardLevelUpAchievement(newLevel) ==
    <<[achievement_type |-> "level_up",
       title            |-> LevelUpTitle(newLevel),
       description      |-> LevelUpDescription(newLevel),
       icon             |-> getLevelIcon(newLevel)]>>
    \o (IF newLevel = 5
        THEN <<[achievement_type |-> "milestone",
                title            |-> <<"Reading Star", "U+2B50">>,
                description      |-> Level5Description,
                icon             |-> <<"U+2B50">>]>>
        ELSE IF newLevel = 10
        THEN <<[achievement_type |-> "milestone",
                title            |-> <<"Reading Buddy Master", "U+1F3C6">>,
                description      |-> Level10Description,
                icon             |-> <<"U+1F3C6">>]>>
        ELSE <<>>)

\* variant of SessionLevelUpInserts without the level 5 milestone
SessionLevelUpInserts_NoStar(qualifiedLevel) ==
    <<[achievement_type |-> "level_up",
       title            |-> LevelUpTitle(qualifiedLevel),
       description      |-> LevelUpDescription(qualifiedLevel),
       icon             |-> SessionGetLevelIcon(qualifiedLevel)]>>
    \o (IF qualifiedLevel = 10
        THEN <<[achievement_type |-> "milestone",
                title            |-> <<"Reading Buddy Master", "U+00F0", "U+0178", "U+2020">>,
                description      |-> Level10Description,
                icon             |-> <<"U+00F0", "U+0178", "U+2020">>]>>
        ELSE <<>>)

\* useLearningSession.checkLevelProgression: the inserts of its level-up branch
SessionLevelUpInserts(qualifiedLevel) ==
    <<[achievement_type |-> "level_up",
       title            |-> LevelUpTitle(qualifiedLevel),
       description      |-> LevelUpDescription(qualifiedLevel),
       icon             |-> SessionGetLevelIcon(qualifiedLevel)]>>
    \o (IF qualifiedLevel = 5
        THEN <<[achievement_type |-> "milestone",
                title            |-> <<"Reading Star", "U+00E2", "U+00AD">>,
                description      |-> Level5Description,
                icon             |-> <<"U+00E2", "U+00AD">>]>>
        ELSE IF qualifiedLevel = 10
        THEN <<[achievement_type |-> "milestone",
                title            |-> <<"Reading Buddy Master", "U+00F0", "U+0178", "U+2020">>,
                description      |-> Level10Description,
                icon             |-> <<"U+00F0", "U+0178", "U+2020">>]>>
        ELSE <<>>)

\* what one evaluation did, kept in lastOp: the profile.level it read, the
\* qualifiedLevel it computed, its writes of profile.level and the
\* achievement rows it inserted
EvalRecord(op, levelBefore, qualifiedLevel, levelWrites, inserted) ==
    [op             |-> op,
     levelBefore    |-> levelBefore,
     qualifiedLevel |-> qualifiedLevel,
     levelWrites    |-> levelWrites,
     inserted       |-> inserted]

\* the operation that reached the database before a run of the hook's evaluation
Previous(prev) == [prevOp |-> prev.op, prevWrites |-> prev.levelWrites]

NoOp  == [op |-> "none", levelWrites |-> 0]
RpcOp == [op |-> "update_word_progress", levelWrites |-> 0]

\* variant of SessionCheckLevelProgression that writes the qualified level
\* whenever it differs from the persisted one
SessionCheckLevelProgression_AnyChange(p, masteredWords) ==
    LET qualifiedLevel == SessionQualifiedLevel(masteredWords, p) IN
    IF qualifiedLevel # p.level
    THEN [profile        |-> [p EXCEPT !.level = qualifiedLevel],
          inserted       |-> SessionLevelUpInserts(qualifiedLevel),
          levelWrites    |-> 1,
          qualifiedLevel |-> qualifiedLevel]
    ELSE [profile        |-> p,
          inserted       |-> <<>>,
          levelWrites    |-> 0,
          qualifiedLevel |-> qualifiedLevel]

\* useLearningSession.checkLevelProgression, on the profile and the mastered
\* rows it reads: the profile it leaves and the achievement rows it inserts
SessionCheckLevelProgression(p, masteredWords) ==
    LET qualifiedLevel == SessionQualifiedLevel(masteredWords, p) IN
    IF qualifiedLevel > p.level
    THEN [profile        |-> [p EXCEPT !.level = qualifiedLevel],
          inserted       |-> SessionLevelUpInserts(qualifiedLevel),
          levelWrites    |-> 1,
          qualifiedLevel |-> qualifiedLevel]
    ELSE [profile        |-> p,
          inserted       |-> <<>>,
          levelWrites    |-> 0,
          qualifiedLevel |-> qualifiedLevel]

----------------------------------------------------------------------------
(* endSession and its downstream steps *)

\* sessionDuration of the k-th session of the date
DurationOf(k) == SessionSeconds[((k - 1) % Len(SessionSeconds)) + 1]

\* variant of AccuracyRate without the test of totalAttempts
AccuracyRate_NoGuard(s) ==
    <<100 * s.correctPronunciations, s.totalAttempts>>

\* accuracyRate of endSession as the rational <<numerator, denominator>>
AccuracyRate(s) ==
    IF s.totalAttempts > 0
    THEN <<100 * s.correctPronunciations, s.totalAttempts>>
    ELSE <<0, 1>>

\* Math.floor(accuracy)
FloorAccuracy(accuracy) == accuracy[1] \div accuracy[2]

\* a rational percentage stored in a numeric(5,2) column, in hundredths
ToNumeric52(accuracy) == (200 * accuracy[1] + accuracy[2]) \div (2 * accuracy[2])

\* variant of update_user_stats that adds the practice time in minutes
update_user_stats_Minutes(p, p_words_learned, p_practice_time, p_accuracy) ==
    [p EXCEPT !.total_words_learned = @ + p_words_learned,
              !.total_practice_time = @ + (p_practice_time \div 60),
              !.accuracy_rate = (@ * p_accuracy[2] + 100 * p_accuracy[1] + p_accuracy[2])
                                    \div (2 * p_accuracy[2])]

\* variant of update_user_stats that weighs the session accuracy twice
update_user_stats_Weighted(p, p_words_learned, p_practice_time, p_accuracy) ==
    [p EXCEPT !.total_words_learned = @ + p_words_learned,
              !.total_practice_time = @ + p_practice_time,
              !.accuracy_rate = (@ * p_accuracy[2] + 200 * p_accuracy[1] + p_accuracy[2])
                                    \div (2 * p_accuracy[2])]

\* update_user_stats (SQL); (accuracy_rate + p_accuracy) / 2 rounded to the
\* scale of the column
update_user_stats(p, p_words_learned, p_practice_time, p_accuracy) ==
    [p EXCEPT !.total_words_learned = @ + p_words_learned,
              !.total_practice_time = @ + p_practice_time,
              !.accuracy_rate = (@ * p_accuracy[2] + 100 * p_accuracy[1] + p_accuracy[2])
                                    \div (2 * p_accuracy[2])]

\* settings?.daily_word_goal || 10
DailyWordGoal(st) ==
    IF st = NoSettings \/ st[1].daily_word_goal = 0 THEN 10 ELSE st[1].daily_word_goal

\* variant of UpdatedWordsGoal that tests the value read, not the new value
UpdatedWordsGoal_OldValue(g, wordsLearned) ==
    LET newValue == g.current_value + wordsLearned IN
    [g EXCEPT !.current_value = newValue,
              !.completed = (g.current_value >= g.target_value)]

\* variant of UpdatedAccuracyGoal that keeps the latest accuracy
UpdatedAccuracyGoal_Latest(g, accuracy) ==
    LET newValue == FloorAccuracy(accuracy) IN
    [g EXCEPT !.current_value = newValue,
              !.completed = (newValue >= g.target_value)]

\* the update branches of updateDailyGoals
UpdatedWordsGoal(g, wordsLearned) ==
    LET newValue == g.current_value + wordsLearned IN
    [g EXCEPT !.current_value = newValue,
              !.completed = (newValue >= g.target_value)]

UpdatedTimeGoal(g, practiceTime) ==
    LET newValue == g.current_value + (practiceTime \div 60) IN
    [g EXCEPT !.current_value = newValue,
              !.completed = (newValue >= g.target_value)]

UpdatedAccuracyGoal(g, accuracy) ==
    LET newValue == Max(g.current_value, FloorAccuracy(accuracy)) IN
    [g EXCEPT !.current_value = newValue,
              !.completed = (newValue >= g.target_value)]

\* the defaultGoals of updateDailyGoals
DefaultGoals(st, wordsLearned, practiceTime, accuracy) == {
    [goal_type     |-> "words",
     target_value  |-> DailyWordGoal(st),
     current_value |-> wordsLearned,
     completed     |-> (wordsLearned >= DailyWordGoal(st))],
    [goal_type     |-> "time",
     target_value  |-> 30,
     current_value |-> practiceTime \div 60,
     completed     |-> ((practiceTime \div 60) >= 30)],
    [goal_type     |-> "accuracy",
     target_value  |-> 80,
     current_value |-> FloorAccuracy(accuracy),
     completed     |-> (FloorAccuracy(accuracy) >= 80)] }

\* updateDailyGoals: each row found by the select is updated; the three rows
\* are inserted only when the select found none
updateDailyGoals(goals, st, wordsLearned, practiceTime, accuracy) ==
    IF goals = {}
    THEN DefaultGoals(st, wordsLearned, practiceTime, accuracy)
    ELSE { IF g.goal_type = "words" THEN UpdatedWordsGoal(g, wordsLearned)
           ELSE IF g.goal_type = "time" THEN UpdatedTimeGoal(g, practiceTime)
           ELSE UpdatedAccuracyGoal(g, accuracy) : g \in goals }

\* variant of updateStreak that takes the new streak as the longest one
updateStreak_NewLongest(p, goals, st, wordsLearned) ==
    IF st = NoSettings THEN p
    ELSE LET dailyGoal == DailyWordGoal(st)
             todayGoal == {g \in goals : g.goal_type = "words"}
             todayValue == IF todayGoal = {} THEN 0
                           ELSE (CHOOSE g \in todayGoal : TRUE).current_value
             totalWordsToday == todayValue + wordsLearned
         IN IF totalWordsToday >= dailyGoal
            THEN LET newStreak == p.current_streak + 1 IN
                 [p EXCEPT !.current_streak = newStreak,
                           !.longest_streak = newStreak]
            ELSE p

\* variant of updateStreak that advances only when this session's words
\* brought the day's total to the goal
updateStreak_NewlyMet(p, goals, st, wordsLearned) ==
    IF st = NoSettings THEN p
    ELSE LET dailyGoal == DailyWordGoal(st)
             todayGoal == {g \in goals : g.goal_type = "words"}
             todayValue == IF todayGoal = {} THEN 0
                           ELSE (CHOOSE g \in todayGoal : TRUE).current_value
             totalWordsToday == todayValue + wordsLearned
         IN IF totalWordsToday >= dailyGoal /\ todayValue - wordsLearned < dailyGoal
            THEN LET newStreak == p.current_streak + 1 IN
                 [p EXCEPT !.current_streak = newStreak,
                           !.longest_streak = Max(newStreak, p.longest_streak)]
            ELSE p

\* updateStreak
updateStreak(p, goals, st, wordsLearned) ==
    IF st = NoSettings THEN p
    ELSE LET dailyGoal == DailyWordGoal(st)
             todayGoal == {g \in goals : g.goal_type = "words"}
             todayValue == IF todayGoal = {} THEN 0
                           ELSE (CHOOSE g \in todayGoal : TRUE).current_value
             totalWordsToday == todayValue + wordsLearned
         IN IF totalWordsToday >= dailyGoal
            THEN LET newStreak == p.current_streak + 1 IN
                 [p EXCEPT !.current_streak = newStreak,
                           !.longest_streak = Max(newStreak, p.longest_streak)]
            ELSE p

\* variant of SessionData that keeps as many words as there are distinct ones
SessionData_DistinctWords(s, sessionDuration) ==
    [words_practiced        |-> SubSeq(s.wordsPracticed, 1,
                                       Cardinality({s.wordsPracticed[i] :
                                                       i \in 1..Len(s.wordsPracticed)})),
     correct_pronunciations |-> s.correctPronunciations,
     total_attempts         |-> s.totalAttempts,
     session_duration       |-> sessionDuration,
     accuracy_rate          |-> ToNumeric52(AccuracyRate(s))]

\* the row endSession inserts into learning_sessions
SessionData(s, sessionDuration) ==
    [words_practiced        |-> s.wordsPracticed,
     correct_pronunciations |-> s.correctPronunciations,
     total_attempts         |-> s.totalAttempts,
     session_duration       |-> sessionDuration,
     accuracy_rate          |-> ToNumeric52(AccuracyRate(s))]

\* handle_new_user (SQL): the three daily_goals rows of the registration date
RegistrationGoals ==
    { [goal_type     |-> t,
       target_value  |-> IF t = "words" THEN 10 ELSE IF t = "time" THEN 30 ELSE 80,
       current_value |-> 0,
       completed     |-> FALSE] : t \in GoalTypes }

NoGoals == {}

----------------------------------------------------------------------------
(* Initial states: the user's history before the modelled date *)

NewProfile ==
    [level |-> 1, total_words_learned |-> 0, total_practice_time |-> 0,
     accuracy_rate |-> 0, current_streak |-> 0, longest_streak |-> 0]

Loaded(goal) == <<[daily_word_goal |-> goal]>>

Histories == {
    \* registered today, default settings
    [profile |-> NewProfile, other |-> 0, cat |-> <<>>,
     goals |-> RegistrationGoals, settings |-> Loaded(10)],
    \* registered earlier, "cat" practised twice
    [profile |-> NewProfile, other |-> 0, cat |-> <<TRUE, FALSE>>,
     goals |-> NoGoals, settings |-> Loaded(2)],
    \* one session short of level 2
    [profile |-> [level |-> 1, total_words_learned |-> 100, total_practice_time |-> 1740,
                  accuracy_rate |-> 6000, current_streak |-> 2, longest_streak |-> 5],
     other |-> 25, cat |-> <<>>, goals |-> NoGoals, settings |-> Loaded(3)],
    \* level 2 held back by accuracy only, settings not loaded
    [profile |-> [level |-> 2, total_words_learned |-> 900, total_practice_time |-> 18000,
                  accuracy_rate |-> 6000, current_streak |-> 21, longest_streak |-> 30],
     other |-> 250, cat |-> <<>>, goals |-> NoGoals, settings |-> NoSettings],
    \* exactly at the thresholds of level 4, "cat" among the mastered words
    [profile |-> [level |-> 4, total_words_learned |-> 600, total_practice_time |-> 10800,
                  accuracy_rate |-> 7500, current_streak |-> 14, longest_streak |-> 14],
     other |-> 149, cat |-> <<TRUE, TRUE, TRUE>>,
     goals |-> RegistrationGoals, settings |-> Loaded(3)],
    \* persisted level behind the metrics of level 3
    [profile |-> [level |-> 1, total_words_learned |-> 300, total_practice_time |-> 5400,
                  accuracy_rate |-> 7000, current_streak |-> 7, longest_streak |-> 9],
     other |-> 75, cat |-> <<>>, goals |-> NoGoals, settings |-> NoSettings],
    \* persisted level behind the metrics of level 10
    [profile |-> [level |-> 9, total_words_learned |-> 5000, total_practice_time |-> 120000,
                  accuracy_rate |-> 9501, current_streak |-> 120, longest_streak |-> 120],
     other |-> 1500, cat |-> <<>>, goals |-> NoGoals, settings |-> Loaded(1)] }

CountOf(cs) == <<Len(cs), Cardinality({i \in 1..Len(cs) : cs[i]})>>

Init ==
    \E h \in Histories :
        /\ profile = h.profile
        /\ word_progress = ApplyCalls(<<>>, "cat", h.cat)
        /\ otherMastered = h.other
        /\ daily_goals = h.goals
        /\ achievements = <<>>
        /\ learning_sessions = <<>>
        /\ settings = h.settings
        /\ session = NoSession
        /\ pending = [c \in Calls |-> 0]
        /\ issued = [w \in LowerWords |-> IF w = "cat" THEN CountOf(h.cat) ELSE <<0, 0>>]
        /\ executed = [w \in LowerWords |-> IF w = "cat" THEN CountOf(h.cat) ELSE <<0, 0>>]
        /\ raced = [w \in LowerWords |-> FALSE]
        /\ currentLevel = 1
        /\ nextLevelRequirements = 0
        /\ progressToNextLevel = 0
        /\ lastOp = NoOp
        /\ user = TRUE
        /\ ending = NotEnding
        /\ evals = NoEvals

----------------------------------------------------------------------------
(* Operations *)

\* attempts recorded on the modelled date
RECURSIVE SumAttempts(_)
SumAttempts(rows) ==
    IF rows = <<>> THEN 0 ELSE Head(rows).total_attempts + SumAttempts(Tail(rows))

AttemptsToday ==
    SumAttempts(learning_sessions)
    + (IF session = NoSession THEN 0 ELSE session[1].totalAttempts)

PendingTotal == pending[<<"cat", TRUE>>] + pending[<<"cat", FALSE>>]
                + pending[<<"dog", TRUE>>] + pending[<<"dog", FALSE>>]

\* the accumulator startSession returns
startSession ==
    [wordsPracticed |-> <<>>, correctPronunciations |-> 0, totalAttempts |-> 0]

\* startSession, the caller keeps the accumulator as currentSession; a caller
\* that ended a session starts the next one when endSession has returned
StartSession ==
    /\ session = NoSession
    /\ ending = NotEnding
    /\ session' = <<startSession>>
    /\ UNCHANGED <<profile, word_progress, otherMastered, daily_goals, achievements,
                   learning_sessions, settings, pending, issued, executed,
                   raced, currentLevel, nextLevelRequirements, progressToNextLevel, lastOp, user, evals, ending>>

\* variant of addWordToSession that counts every attempt as correct
addWordToSession_CountsAll(s, word, isCorrect) ==
    [wordsPracticed        |-> Append(s.wordsPracticed, word),
     totalAttempts         |-> s.totalAttempts + 1,
     correctPronunciations |-> s.correctPronunciations + 1]

\* the accumulator addWordToSession returns
addWordToSession(s, word, isCorrect) ==
    [wordsPracticed        |-> Append(s.wordsPracticed, word),
     totalAttempts         |-> s.totalAttempts + 1,
     correctPronunciations |-> s.correctPronunciations + (IF isCorrect THEN 1 ELSE 0)]

\* addWordToSession: the caller keeps the returned accumulator; the rpc of
\* updateWordProgress is started and not awaited
AddWordToSession ==
    /\ session # NoSession
    /\ AttemptsToday < MaxAttempts
    /\ PendingTotal < MaxPending
    /\ \E word \in Words, isCorrect \in BOOLEAN :
        LET call == <<ToLowerCase(word), isCorrect>> IN
        /\ session' = <<addWordToSession(session[1], word, isCorrect)>>
        /\ pending' = (IF user THEN [pending EXCEPT ![call] = @ + 1] ELSE pending)
        /\ issued' = (IF user
                      THEN [issued EXCEPT ![call[1]] =
                              <<@[1] + 1, @[2] + (IF isCorrect THEN 1 ELSE 0)>>]
                      ELSE issued)
    /\ UNCHANGED <<profile, word_progress, otherMastered, daily_goals, achievements,
                   learning_sessions, settings, executed, raced,
                   currentLevel, nextLevelRequirements, progressToNextLevel, lastOp, user, evals, ending>>

\* the database executes one update_word_progress call that is in flight
UpdateWordProgress ==
    /\ \E call \in Calls :
        /\ pending[call] > 0
        /\ pending' = [pending EXCEPT ![call] = @ - 1]
        /\ word_progress' = update_word_progress(word_progress, call[1], call[2])
        /\ executed' = [executed EXCEPT ![call[1]] =
                          <<@[1] + 1, @[2] + (IF call[2] THEN 1 ELSE 0)>>]
        /\ raced' = [raced EXCEPT ![call[1]] =
                       @ \/ pending[<<call[1], TRUE>>] + pending[<<call[1], FALSE>>] >= 2]
    /\ lastOp' = RpcOp
    /\ UNCHANGED <<profile, otherMastered, daily_goals, achievements,
                   learning_sessions, settings, session, issued,
                   currentLevel, nextLevelRequirements, progressToNextLevel, user, evals, ending>>

\* the screens end a session only when it has practised words
HasPractice ==
    /\ session # NoSession
    /\ Len(session[1].wordsPracticed) > 0

\* endSession with a signed-in user: the insert and the four awaited steps
EndSession ==
    /\ HasPractice
    /\ user
    /\ LET sessionDuration == DurationOf(Len(learning_sessions) + 1)
            accuracyRate == AccuracyRate(session[1])
            wordsLearned == Len(session[1].wordsPracticed)
            p1 == update_user_stats(profile, wordsLearned, sessionDuration, accuracyRate)
            g1 == updateDailyGoals(daily_goals, settings, wordsLearned,
                                   sessionDuration, accuracyRate)
            p2 == updateStreak(p1, g1, settings, wordsLearned)
            ev == SessionCheckLevelProgression(p2,
                      MasteredWords(word_progress, otherMastered))
        IN
        /\ learning_sessions' = Append(learning_sessions,
                                       SessionData(session[1], sessionDuration))
        /\ daily_goals' = g1
        /\ profile' = ev.profile
        /\ achievements' = achievements \o ev.inserted
        /\ lastOp' = EvalRecord("endSession", p2.level, ev.qualifiedLevel,
                                 ev.levelWrites, ev.inserted)
    /\ session' = NoSession
    /\ UNCHANGED <<word_progress, otherMastered, settings, pending, issued, executed,
                   raced, currentLevel, nextLevelRequirements, progressToNextLevel, user, evals, ending>>

\* the metrics checkLevelProgression passes to calculateProgressToNextLevel
Current(masteredWords, p) ==
    [wordsLearned |-> masteredWords,
     accuracy     |-> p.accuracy_rate,
     streak       |-> p.current_streak,
     practiceTime |-> PracticeTimeMinutes(p)]

\* useLevelProgression.checkLevelProgression
CheckLevelProgression ==
    LET masteredWords == MasteredWords(word_progress, otherMastered)
        qualifiedLevel == QualifiedLevel(masteredWords, profile)
        levelUp == qualifiedLevel > profile.level
        p1 == IF levelUp THEN updateUserLevel(profile, qualifiedLevel) ELSE profile
        inserted == IF levelUp THEN awardLevelUpAchievement(qualifiedLevel) ELSE <<>>
        nextLevel == Min(qualifiedLevel + 1, Len(LEVEL_REQUIREMENTS))
    IN
    /\ profile' = p1
    /\ achievements' = achievements \o inserted
    /\ currentLevel' = (IF levelUp THEN qualifiedLevel ELSE profile.level)
    /\ nextLevelRequirements' = LEVEL_REQUIREMENTS[nextLevel].level
    /\ progressToNextLevel' = calculateProgressToNextLevel(
                                  Current(masteredWords, profile),
                                  LEVEL_REQUIREMENTS[nextLevel])
    /\ lastOp' = EvalRecord("checkLevelProgression", profile.level, qualifiedLevel,
                             IF levelUp THEN 1 ELSE 0, inserted) @@ Previous(lastOp)
    /\ UNCHANGED <<word_progress, otherMastered, daily_goals, learning_sessions,
                   settings, session, pending, issued, executed, raced, user, evals, ending>>

Next ==
    \/ StartSession
    \/ AddWordToSession
    \/ UpdateWordProgress
    \/ EndSession
    \/ CheckLevelProgression

Spec == Init /\ [][Next]_vars

----------------------------------------------------------------------------
(* The hook useLearningSession as it is exposed: endSession on any         *)
(* accumulator, signed in or not, one step per awaited call; a backend     *)
(* call may fail, the step that made it then has no effect                 *)

\* variant of EndSteps with the streak step before the daily goals step
EndSteps_StreakFirst == <<"stats", "streak", "goals", "level">>

\* the awaited calls of endSession after the insert, in the order of the code
EndSteps == <<"stats", "goals", "streak", "level">>

StepAfter(pc) ==
    LET i == CHOOSE j \in 1..Len(EndSteps) : EndSteps[j] = pc IN
    IF i < Len(EndSteps) THEN EndSteps[i + 1] ELSE "return"

\* accuracyRate of endSession, from the row it inserted
RowAccuracy(row) ==
    IF row.total_attempts > 0
    THEN <<100 * row.correct_pronunciations, row.total_attempts>>
    ELSE <<0, 1>>

\* what endSession returns, kept in lastOp with the tables it found
Returned(data, error, failed, before, levelWrites) ==
    [op          |-> "endSession returned",
     levelWrites |-> levelWrites,
     data        |-> data,
     error       |-> error,
     failed      |-> failed,
     before      |-> before]

NoError == <<>>
NoData  == <<>>

\* update_word_progress calls executed so far
ExecutedTotal == executed["cat"][1] + executed["dog"][1]

\* addWordToSession whose update_word_progress call is executed before the
\* next event; without a user the call is not made
AddWordAndUpdate ==
    /\ session # NoSession
    /\ AttemptsToday < MaxAttempts
    /\ ExecutedTotal < MaxAttempts
    /\ \E word \in Words, isCorrect \in BOOLEAN :
        LET p_word == ToLowerCase(word)
            inc == <<1, IF isCorrect THEN 1 ELSE 0>>
        IN
        /\ session' = <<addWordToSession(session[1], word, isCorrect)>>
        /\ IF user
           THEN /\ word_progress' = update_word_progress(word_progress, p_word, isCorrect)
                /\ issued' = [issued EXCEPT ![p_word] = <<@[1] + inc[1], @[2] + inc[2]>>]
                /\ executed' = [executed EXCEPT ![p_word] = <<@[1] + inc[1], @[2] + inc[2]>>]
                /\ lastOp' = RpcOp
           ELSE UNCHANGED <<word_progress, issued, executed, lastOp>>
    /\ UNCHANGED <<profile, otherMastered, daily_goals, achievements, learning_sessions,
                   settings, pending, raced, currentLevel, nextLevelRequirements, progressToNextLevel,
                   user, evals, ending>>

\* variant of EndSessionNoUser that goes on to the insert
EndSessionNoUser_Inserts ==
    /\ session # NoSession
    /\ ending = NotEnding
    /\ ~user
    /\ Len(learning_sessions) < MaxSessions
    /\ learning_sessions' = Append(learning_sessions,
                                   SessionData(session[1],
                                               DurationOf(Len(learning_sessions) + 1)))
    /\ lastOp' = Returned(NoData, <<"No user">>, {},
                          [profile |-> profile, daily_goals |-> daily_goals], 0)
    /\ session' = NoSession
    /\ UNCHANGED <<profile, word_progress, otherMastered, daily_goals, achievements,
                   settings, pending, issued, executed, raced,
                   currentLevel, nextLevelRequirements, progressToNextLevel, user, evals, ending>>

\* if (!user) return { error: new Error('No user') }
EndSessionNoUser ==
    /\ session # NoSession
    /\ ending = NotEnding
    /\ ~user
    /\ lastOp' = Returned(NoData, <<"No user">>, {},
                          [profile |-> profile, daily_goals |-> daily_goals], 0)
    /\ session' = NoSession
    /\ UNCHANGED <<profile, word_progress, otherMastered, daily_goals, achievements,
                   learning_sessions, settings, pending, issued, executed, raced,
                   currentLevel, nextLevelRequirements, progressToNextLevel, user, evals, ending>>

\* variant of EndSessionInsertFails that goes on to the downstream steps
EndSessionInsertFails_GoesOn ==
    /\ session # NoSession
    /\ ending = NotEnding
    /\ user
    /\ ending' = <<[pc |-> EndSteps[1],
                    data |-> SessionData(session[1], DurationOf(Len(learning_sessions) + 1)),
                    failed |-> {"insert"},
                    before |-> [profile |-> profile, daily_goals |-> daily_goals]]>>
    /\ session' = NoSession
    /\ UNCHANGED <<profile, word_progress, otherMastered, daily_goals, achievements,
                   learning_sessions, settings, pending, issued, executed, raced,
                   currentLevel, nextLevelRequirements, progressToNextLevel, lastOp, user, evals>>

\* endSession whose insert into learning_sessions returns an error:
\* if (error) throw error, and the catch returns { data: null, error }
EndSessionInsertFails ==
    /\ session # NoSession
    /\ ending = NotEnding
    /\ user
    /\ lastOp' = Returned(NoData, <<"insert error">>, {"insert"},
                          [profile |-> profile, daily_goals |-> daily_goals], 0)
    /\ session' = NoSession
    /\ UNCHANGED <<profile, word_progress, otherMastered, daily_goals, achievements,
                   learning_sessions, settings, pending, issued, executed, raced,
                   currentLevel, nextLevelRequirements, progressToNextLevel, user, evals, ending>>

\* endSession up to the insert into learning_sessions, which succeeds
EndSessionInsert ==
    /\ session # NoSession
    /\ ending = NotEnding
    /\ user
    /\ Len(learning_sessions) < MaxSessions
    /\ LET sessionDuration == DurationOf(Len(learning_sessions) + 1)
           row == SessionData(session[1], sessionDuration)
           before == [profile |-> profile, daily_goals |-> daily_goals]
       IN /\ learning_sessions' = Append(learning_sessions, row)
          /\ ending' = <<[pc |-> EndSteps[1], data |-> row,
                          failed |-> {}, before |-> before]>>
    /\ session' = NoSession
    /\ UNCHANGED <<profile, word_progress, otherMastered, daily_goals, achievements,
                   settings, pending, issued, executed, raced,
                   currentLevel, nextLevelRequirements, progressToNextLevel, lastOp, user, evals>>

\* the backend call of a step succeeds or fails; one call of endSession sees
\* at most one failing step
Outcomes(e) == IF e.failed = {} THEN BOOLEAN ELSE {TRUE}

\* variant of Advance in which a failing step ends the downstream steps but
\* for the level evaluation
Advance_SkipsToLevel(e, ok) ==
    [e EXCEPT !.pc = IF ok \/ e.pc = "level" THEN StepAfter(e.pc) ELSE "level",
              !.failed = IF ok THEN @ ELSE @ \cup {e.pc}]

\* the position of endSession after the step at pc, which failed or not
Advance(e, ok) ==
    [e EXCEPT !.pc = StepAfter(e.pc),
              !.failed = IF ok THEN @ ELSE @ \cup {e.pc}]

\* await updateUserStats(...)
AwaitUpdateUserStats ==
    /\ ending # NotEnding
    /\ ending[1].pc = "stats"
    /\ \E ok \in Outcomes(ending[1]) :
        /\ profile' = (IF ok
                       THEN update_user_stats(profile, Len(ending[1].data.words_practiced),
                                              ending[1].data.session_duration,
                                              RowAccuracy(ending[1].data))
                       ELSE profile)
        /\ ending' = <<Advance(ending[1], ok)>>
    /\ UNCHANGED <<word_progress, otherMastered, daily_goals, achievements,
                   learning_sessions, settings, session, pending, issued, executed,
                   raced, currentLevel, nextLevelRequirements, progressToNextLevel, lastOp, user, evals>>

\* await updateDailyGoals(...)
AwaitUpdateDailyGoals ==
    /\ ending # NotEnding
    /\ ending[1].pc = "goals"
    /\ \E ok \in Outcomes(ending[1]) :
        /\ daily_goals' = (IF ok
                           THEN updateDailyGoals(daily_goals, settings,
                                                 Len(ending[1].data.words_practiced),
                                                 ending[1].data.session_duration,
                                                 RowAccuracy(ending[1].data))
                           ELSE daily_goals)
        /\ ending' = <<Advance(ending[1], ok)>>
    /\ UNCHANGED <<profile, word_progress, otherMastered, achievements,
                   learning_sessions, settings, session, pending, issued, executed,
                   raced, currentLevel, nextLevelRequirements, progressToNextLevel, lastOp, user, evals>>

\* await updateStreak(...)
AwaitUpdateStreak ==
    /\ ending # NotEnding
    /\ ending[1].pc = "streak"
    /\ \E ok \in Outcomes(ending[1]) :
        /\ profile' = (IF ok
                       THEN updateStreak(profile, daily_goals, settings,
                                         Len(ending[1].data.words_practiced))
                       ELSE profile)
        /\ ending' = <<Advance(ending[1], ok)>>
    /\ UNCHANGED <<word_progress, otherMastered, daily_goals, achievements,
                   learning_sessions, settings, session, pending, issued, executed,
                   raced, currentLevel, nextLevelRequirements, progressToNextLevel, lastOp, user, evals>>

\* await checkLevelProgression(...), then return { data, error: null }
AwaitCheckLevelProgression ==
    /\ ending # NotEnding
    /\ ending[1].pc = "level"
    /\ \E ok \in Outcomes(ending[1]) :
        LET ev == SessionCheckLevelProgression(profile,
                      MasteredWords(word_progress, otherMastered))
            e == Advance(ending[1], ok)
        IN
        /\ profile' = (IF ok THEN ev.profile ELSE profile)
        /\ achievements' = (IF ok THEN achievements \o ev.inserted ELSE achievements)
        /\ lastOp' = Returned(<<e.data>>, NoError, e.failed, e.before,
                              IF ok THEN ev.levelWrites ELSE 0)
    /\ ending' = NotEnding
    /\ UNCHANGED <<word_progress, otherMastered, daily_goals, learning_sessions,
                   settings, session, pending, issued, executed, raced,
                   currentLevel, nextLevelRequirements, progressToNextLevel, user, evals>>

\* the day's goal rows at the first call: any of the three rows may be missing
HookHistories ==
    { [profile |-> NewProfile, other |-> 0, goals |-> g, settings |-> Loaded(2)] :
          g \in SUBSET RegistrationGoals }
    \cup
    { [profile |-> [level |-> 1, total_words_learned |-> 100, total_practice_time |-> 1799,
                    accuracy_rate |-> 6000, current_streak |-> 2, longest_streak |-> 2],
       other |-> 25, goals |-> NoGoals, settings |-> Loaded(3)] }

InitHook ==
    \E h \in HookHistories :
        /\ profile = h.profile
        /\ word_progress = <<>>
        /\ otherMastered = h.other
        /\ daily_goals = h.goals
        /\ achievements = <<>>
        /\ learning_sessions = <<>>
        /\ settings = h.settings
        /\ session = NoSession
        /\ pending = [c \in Calls |-> 0]
        /\ issued = [w \in LowerWords |-> <<0, 0>>]
        /\ executed = [w \in LowerWords |-> <<0, 0>>]
        /\ raced = [w \in LowerWords |-> FALSE]
        /\ currentLevel = 1
        /\ nextLevelRequirements = 0
        /\ progressToNextLevel = 0
        /\ lastOp = NoOp
        /\ user \in BOOLEAN
        /\ ending = NotEnding
        /\ evals = NoEvals

NextHook ==
    \/ StartSession
    \/ AddWordAndUpdate
    \/ EndSessionNoUser
    \/ EndSessionInsert
    \/ EndSessionInsertFails
    \/ AwaitUpdateUserStats
    \/ AwaitUpdateDailyGoals
    \/ AwaitUpdateStreak
    \/ AwaitCheckLevelProgression

SpecHook == InitHook /\ [][NextHook]_vars

----------------------------------------------------------------------------
(* Overlapping level evaluations: every await of an evaluation is a step   *)
(* of its own, so that other calls run between its reads and its writes    *)

\* the hook's evaluation started by the effect of a mounted component and
\* the one fetchUserProgress of the progress screen awaits
HookEvaluators == {"useEffect", "fetchUserProgress"}

\* the evaluations of the user that may be in progress at once
Evaluators == HookEvaluators \cup {"endSession"}

NotRead == <<>>

\* an evaluation that has not started
Idle == [pc |-> "idle", profile |-> NotRead, masteredWords |-> 0, qualifiedLevel |-> 0]

\* an evaluation of the hook that has set the hook's state and returned
Done == [Idle EXCEPT !.pc = "done"]

\* const { data: profile } = await supabase.from('profiles').select('*')...
HookEvalReadProfile ==
    /\ user
    /\ \E e \in HookEvaluators :
        /\ evals[e].pc = "idle"
        /\ evals' = [evals EXCEPT ![e] = [@ EXCEPT !.pc = "words",
                                                   !.profile = <<profile>>]]
    /\ UNCHANGED <<profile, word_progress, otherMastered, daily_goals, achievements,
                   learning_sessions, settings, session, pending, issued, executed,
                   raced, currentLevel, nextLevelRequirements, progressToNextLevel,
                   lastOp, user, ending>>

\* the select of the mastered word_progress rows and the ladder loop; with no
\* level-up the evaluation sets the hook's state and returns
HookEvalReadWords ==
    \E e \in HookEvaluators :
        /\ evals[e].pc = "words"
        /\ LET p == evals[e].profile[1]
               masteredWords == MasteredWords(word_progress, otherMastered)
               qualifiedLevel == QualifiedLevel(masteredWords, p)
               nextLevel == Min(qualifiedLevel + 1, Len(LEVEL_REQUIREMENTS))
           IN
           IF qualifiedLevel > p.level
           THEN /\ evals' = [evals EXCEPT ![e] = [@ EXCEPT !.pc = "write",
                                                    !.masteredWords = masteredWords,
                                                    !.qualifiedLevel = qualifiedLevel]]
                /\ UNCHANGED <<currentLevel, nextLevelRequirements, progressToNextLevel>>
           ELSE /\ evals' = [evals EXCEPT ![e] = Done]
                /\ currentLevel' = p.level
                /\ nextLevelRequirements' = LEVEL_REQUIREMENTS[nextLevel].level
                /\ progressToNextLevel' = calculateProgressToNextLevel(
                                              Current(masteredWords, p),
                                              LEVEL_REQUIREMENTS[nextLevel])
        /\ UNCHANGED <<profile, word_progress, otherMastered, daily_goals, achievements,
                       learning_sessions, settings, session, pending, issued, executed,
                       raced, lastOp, user, ending>>

\* await updateUserLevel(qualifiedLevel): the update of profiles succeeds or
\* returns an error, which is not looked at
HookEvalWrite ==
    \E e \in HookEvaluators, ok \in BOOLEAN :
        /\ evals[e].pc = "write"
        /\ profile' = (IF ok THEN updateUserLevel(profile, evals[e].qualifiedLevel)
                       ELSE profile)
        /\ evals' = [evals EXCEPT ![e] = [@ EXCEPT !.pc = "award"]]
        /\ UNCHANGED <<word_progress, otherMastered, daily_goals, achievements,
                       learning_sessions, settings, session, pending, issued, executed,
                       raced, currentLevel, nextLevelRequirements, progressToNextLevel,
                       lastOp, user, ending>>

\* await awardLevelUpAchievement(qualifiedLevel), setCurrentLevel(qualifiedLevel)
\* and the progress to the next level
HookEvalAward ==
    \E e \in HookEvaluators :
        /\ evals[e].pc = "award"
        /\ LET qualifiedLevel == evals[e].qualifiedLevel
               nextLevel == Min(qualifiedLevel + 1, Len(LEVEL_REQUIREMENTS))
           IN
           /\ achievements' = achievements \o awardLevelUpAchievement(qualifiedLevel)
           /\ currentLevel' = qualifiedLevel
           /\ nextLevelRequirements' = LEVEL_REQUIREMENTS[nextLevel].level
           /\ progressToNextLevel' = calculateProgressToNextLevel(
                                         Current(evals[e].masteredWords,
                                                 evals[e].profile[1]),
                                         LEVEL_REQUIREMENTS[nextLevel])
        /\ evals' = [evals EXCEPT ![e] = Done]
        /\ UNCHANGED <<profile, word_progress, otherMastered, daily_goals,
                       learning_sessions, settings, session, pending, issued, executed,
                       raced, lastOp, user, ending>>

\* endSession at await checkLevelProgression(...): the select of the profile
SessionEvalReadProfile ==
    /\ ending # NotEnding
    /\ ending[1].pc = "level"
    /\ evals["endSession"].pc = "idle"
    /\ evals' = [evals EXCEPT !["endSession"] = [@ EXCEPT !.pc = "words",
                                                          !.profile = <<profile>>]]
    /\ UNCHANGED <<profile, word_progress, otherMastered, daily_goals, achievements,
                   learning_sessions, settings, session, pending, issued, executed,
                   raced, currentLevel, nextLevelRequirements, progressToNextLevel,
                   lastOp, user, ending>>

\* the select of the mastered word_progress rows and the ladder loop; with no
\* level-up endSession returns { data, error: null }
SessionEvalReadWords ==
    /\ evals["endSession"].pc = "words"
    /\ LET p == evals["endSession"].profile[1]
           masteredWords == MasteredWords(word_progress, otherMastered)
           qualifiedLevel == SessionQualifiedLevel(masteredWords, p)
       IN
       IF qualifiedLevel > p.level
       THEN /\ evals' = [evals EXCEPT !["endSession"] =
                            [@ EXCEPT !.pc = "write",
                                      !.masteredWords = masteredWords,
                                      !.qualifiedLevel = qualifiedLevel]]
            /\ UNCHANGED <<lastOp, ending>>
       ELSE /\ evals' = [evals EXCEPT !["endSession"] = Idle]
            /\ lastOp' = Returned(<<ending[1].data>>, NoError, ending[1].failed,
                                  ending[1].before, 0)
            /\ ending' = NotEnding
    /\ UNCHANGED <<profile, word_progress, otherMastered, daily_goals, achievements,
                   learning_sessions, settings, session, pending, issued, executed,
                   raced, currentLevel, nextLevelRequirements, progressToNextLevel, user>>

\* await supabase.from('profiles').update({ level: qualifiedLevel, ... }): the
\* update succeeds or returns an error, which is not looked at
SessionEvalWrite ==
    /\ evals["endSession"].pc = "write"
    /\ \E ok \in BOOLEAN :
        profile' = (IF ok
                    THEN [profile EXCEPT !.level = evals["endSession"].qualifiedLevel]
                    ELSE profile)
    /\ evals' = [evals EXCEPT !["endSession"] = [@ EXCEPT !.pc = "award"]]
    /\ UNCHANGED <<word_progress, otherMastered, daily_goals, achievements,
                   learning_sessions, settings, session, pending, issued, executed,
                   raced, currentLevel, nextLevelRequirements, progressToNextLevel,
                   lastOp, user, ending>>

\* the inserts into achievements, then endSession returns { data, error: null }
SessionEvalAward ==
    /\ evals["endSession"].pc = "award"
    /\ achievements' = achievements \o
                           SessionLevelUpInserts(evals["endSession"].qualifiedLevel)
    /\ evals' = [evals EXCEPT !["endSession"] = Idle]
    /\ lastOp' = Returned(<<ending[1].data>>, NoError, ending[1].failed,
                          ending[1].before, 1)
    /\ ending' = NotEnding
    /\ UNCHANGED <<profile, word_progress, otherMastered, daily_goals,
                   learning_sessions, settings, session, pending, issued, executed,
                   raced, currentLevel, nextLevelRequirements, progressToNextLevel, user>>

\* a user whose persisted level is behind the metrics; the session of the
\* date is in progress, "Cat" was said right and "dog" wrong
RaceHistories == {
    \* level 1 with the metrics of level 3
    [profile |-> [level |-> 1, total_words_learned |-> 300, total_practice_time |-> 5400,
                  accuracy_rate |-> 8000, current_streak |-> 7, longest_streak |-> 9],
     other |-> 75],
    \* level 4 with the metrics of level 5
    [profile |-> [level |-> 4, total_words_learned |-> 900, total_practice_time |-> 18000,
                  accuracy_rate |-> 8000, current_streak |-> 21, longest_streak |-> 30],
     other |-> 250] }

InitRace ==
    \E h \in RaceHistories :
        /\ profile = h.profile
        /\ word_progress = update_word_progress(
                               update_word_progress(<<>>, "cat", TRUE), "dog", FALSE)
        /\ otherMastered = h.other
        /\ daily_goals = NoGoals
        /\ achievements = <<>>
        /\ learning_sessions = <<>>
        /\ settings = NoSettings
        /\ session = <<addWordToSession(addWordToSession(startSession, "Cat", TRUE),
                                         "dog", FALSE)>>
        /\ pending = [c \in Calls |-> 0]
        /\ issued = [w \in LowerWords |-> IF w = "cat" THEN <<1, 1>> ELSE <<1, 0>>]
        /\ executed = [w \in LowerWords |-> IF w = "cat" THEN <<1, 1>> ELSE <<1, 0>>]
        /\ raced = [w \in LowerWords |-> FALSE]
        /\ currentLevel = 1
        /\ nextLevelRequirements = 0
        /\ progressToNextLevel = 0
        /\ lastOp = RpcOp
        /\ user = TRUE
        /\ ending = NotEnding
        /\ evals = [e \in Evaluators |-> Idle]

NextRace ==
    \/ EndSessionInsert
    \/ AwaitUpdateUserStats
    \/ AwaitUpdateDailyGoals
    \/ AwaitUpdateStreak
    \/ SessionEvalReadProfile
    \/ SessionEvalReadWords
    \/ SessionEvalWrite
    \/ SessionEvalAward
    \/ HookEvalReadProfile
    \/ HookEvalReadWords
    \/ HookEvalWrite
    \/ HookEvalAward

SpecRace == InitRace /\ [][NextRace]_vars

----------------------------------------------------------------------------
(* Properties of the Word Mastery Tracker *)

RowsOf(w) == {i \in 1..Len(word_progress) : word_progress[i].word = w}

\* the tier rule as the specification states it, on percentages
ClaimedTier(p, c) ==
    IF 100 * c >= 90 * p /\ p >= 5 THEN 100
    ELSE IF 100 * c >= 70 * p /\ p >= 3 THEN 75
    ELSE IF 100 * c >= 50 * p THEN 50
    ELSE 25

\* C5: after every update_word_progress call, times_correct <= times_practiced,
\* times_practiced is the number of calls executed for the word so far and
\* times_correct the number of correct ones; a word has a row as soon as one
\* call was executed for it.
CountsMatchCalls ==
    /\ \A i \in 1..Len(word_progress) :
        LET r == word_progress[i] IN
        /\ r.times_correct <= r.times_practiced
        /\ r.times_practiced = executed[r.word][1]
        /\ r.times_correct = executed[r.word][2]
    /\ \A w \in LowerWords : executed[w][1] > 0 => RowsOf(w) # {}

\* a row that has seen correct and incorrect attempts, created by its first call
CountsMatchCallsWitness ==
    /\ lastOp.op = "update_word_progress"
    /\ \E i \in 1..Len(word_progress) :
        /\ word_progress[i].word = "dog"
        /\ word_progress[i].times_practiced = 2
        /\ word_progress[i].times_correct = 1

\* C6: after a call on an existing row (the row then has times_practiced >= 2)
\* mastery_level is the tier of the post-increment counts.
MasteryAfterUpdate ==
    \A i \in 1..Len(word_progress) :
        LET r == word_progress[i] IN
        r.times_practiced >= 2 =>
            r.mastery_level = ClaimedTier(r.times_practiced, r.times_correct)

\* 5 of 5 gives 100 and, for another user, 2 of 3 gives 50
MasteryAfterUpdateWitness ==
    \E i \in 1..Len(word_progress) :
        LET r == word_progress[i] IN
        \/ r.times_practiced = 5 /\ r.times_correct = 5 /\ r.mastery_level = 100
        \/ r.times_practiced = 3 /\ r.times_correct = 2 /\ r.mastery_level = 50

\* C7: mastery_level of every row, the row of a first attempt included, is the
\* tier of its counts (50 for 1 of 1, 25 for 0 of 1).
MasteryIsTierOfCounts ==
    \A i \in 1..Len(word_progress) :
        LET r == word_progress[i] IN
        r.mastery_level = ClaimedTier(r.times_practiced, r.times_correct)

\* C8: update_word_progress calls of any interleaving are all counted: every
\* word has at most one row, its counts plus the calls still in flight are
\* the calls issued, and once no call is in flight the row holds
\* times_practiced = n and times_correct = k.
NoLostUpdate ==
    \A w \in LowerWords :
        LET inFlight == pending[<<w, TRUE>>] + pending[<<w, FALSE>>] IN
        /\ Cardinality(RowsOf(w)) <= 1
        /\ issued[w][1] > inFlight => Cardinality(RowsOf(w)) = 1
        /\ \A i \in RowsOf(w) :
            /\ word_progress[i].times_practiced + inFlight = issued[w][1]
            /\ word_progress[i].times_correct + pending[<<w, TRUE>>] = issued[w][2]

\* two calls on "cat" were in flight together and both have been executed
NoLostUpdateWitness ==
    /\ raced["cat"]
    /\ PendingTotal = 0
    /\ \E i \in RowsOf("cat") : word_progress[i].times_practiced = issued["cat"][1]

\* C26: the update_word_progress call of an attempt has taken effect when
\* addWordToSession returns, so no call is in flight when a later endSession
\* runs: its level evaluation counts the mastered words from rows that hold
\* every attempt issued so far.
WordProgressSynchronous ==
    [][learning_sessions' # learning_sessions =>
          \A w \in LowerWords : executed[w] = issued[w]]_vars

----------------------------------------------------------------------------
(* Properties of the Level Progression Engine *)

EvalOps == {"endSession", "checkLevelProgression"}

\* C1: over any sequence of endSession and checkLevelProgression calls the
\* persisted profile.level stays within 1..10 and never decreases, also when
\* the metrics have dropped below the thresholds of the current level.
LevelNeverDecreases ==
    /\ [](profile.level \in 1..10)
    /\ [][profile'.level >= profile.level]_vars

\* an evaluation found the user qualified for less than the persisted level
\* and left the level as it was
LevelNeverDecreasesWitness ==
    /\ lastOp.op \in EvalOps
    /\ lastOp.qualifiedLevel < lastOp.levelBefore
    /\ profile.level = lastOp.levelBefore

\* C3: an evaluation that finds qualifiedLevel > profile.level inserts exactly
\* one level_up achievement, titled for the final level, and one milestone
\* achievement exactly when the final level is 5 or 10; any other evaluation
\* inserts nothing. The inserted rows are the last rows of the table.
OneLevelUpAchievement ==
    lastOp.op \in EvalOps =>
        LET ins == lastOp.inserted
            n == Len(achievements)
            levelUps == {i \in 1..Len(ins) : ins[i].achievement_type = "level_up"}
            milestones == {i \in 1..Len(ins) : ins[i].achievement_type = "milestone"}
        IN
        /\ Len(ins) <= n
        /\ SubSeq(achievements, n - Len(ins) + 1, n) = ins
        /\ IF lastOp.qualifiedLevel > lastOp.levelBefore
           THEN /\ Cardinality(levelUps) = 1
                /\ \A i \in levelUps : ins[i].title = LevelUpTitle(lastOp.qualifiedLevel)
                /\ Cardinality(milestones) =
                       (IF lastOp.qualifiedLevel \in {5, 10} THEN 1 ELSE 0)
                /\ Len(ins) = Cardinality(levelUps) + Cardinality(milestones)
           ELSE ins = <<>>

\* endSession raised the level by three tiers to level 5
OneLevelUpAchievementWitness ==
    /\ lastOp.op = "endSession"
    /\ lastOp.levelBefore = 2
    /\ lastOp.qualifiedLevel = 5
    /\ Len(lastOp.inserted) = 2

\* C4: a checkLevelProgression run right after a completed evaluation, with
\* no write to the profile metrics or to word progress in between, writes
\* nothing to profiles and inserts no achievement.
SecondEvaluationIsNoOp ==
    (lastOp.op = "checkLevelProgression" /\ lastOp.prevOp \in EvalOps) =>
        /\ lastOp.levelWrites = 0
        /\ lastOp.inserted = <<>>

\* the run before the second one raised the level
SecondEvaluationIsNoOpWitness ==
    /\ lastOp.op = "checkLevelProgression"
    /\ lastOp.prevOp = "checkLevelProgression"
    /\ lastOp.prevWrites = 1
    /\ lastOp.levelWrites = 0

RECURSIVE GCD(_, _)
GCD(a, b) == IF b = 0 THEN a ELSE GCD(b, a % b)

LCM(a, b) == (a \div GCD(a, b)) * b

\* C22: progressToNextLevel is floor(100 * the average over the four metrics
\* of min(current / required, 1)), taken against the ladder entry after the
\* qualified level (the entry of level 10 at level 10): it is within 0..100,
\* it is 0 for 0 mastered words, accuracy 0, streak 0 and practice time 0, it
\* is below 100 while the qualified level is below 10 and 100 at level 10,
\* and no required value it divides by is 0. The average is the exact one:
\* with scale a common multiple of the four divisors, total / scale is the
\* sum of the four ratios.
ProgressIsFloorOfAverage ==
    lastOp.op = "checkLevelProgression" =>
        LET qualifiedLevel == lastOp.qualifiedLevel
            requirement == LEVEL_REQUIREMENTS[Min(qualifiedLevel + 1, Len(LEVEL_REQUIREMENTS))]
            current == Current(MasteredWords(word_progress, otherMastered), profile)
            dw == requirement.minWordsLearned
            da == 100 * requirement.minAccuracy
            ds == requirement.minStreakDays
            dt == requirement.minPracticeTime
            scale == LCM(LCM(dw, da), LCM(ds, dt))
            total == Min(current.wordsLearned, dw) * (scale \div dw)
                     + Min(current.accuracy, da) * (scale \div da)
                     + Min(current.streak, ds) * (scale \div ds)
                     + Min(current.practiceTime, dt) * (scale \div dt)
        IN
        /\ dw # 0 /\ da # 0 /\ ds # 0 /\ dt # 0
        /\ progressToNextLevel \in 0..100
        /\ 4 * scale * progressToNextLevel <= 100 * total
        /\ 100 * total < 4 * scale * (progressToNextLevel + 1)
        /\ total = 0 => (progressToNextLevel = 0 /\ requirement.level = 2)
        /\ qualifiedLevel < 10 => progressToNextLevel < 100
        /\ qualifiedLevel = 10 => progressToNextLevel = 100

\* C23: after every completed checkLevelProgression the reported
\* nextLevelRequirements is the ladder entry of the next unattained level:
\* its level is currentLevel + 1 whenever the reported currentLevel, the
\* maximum of the persisted and the qualified level, is below 10.
NextRequirementsFollowCurrentLevel ==
    (lastOp.op = "checkLevelProgression" /\ currentLevel < 10) =>
        nextLevelRequirements = currentLevel + 1

\* C30: the two level evaluators are equivalent: on every profile and
\* mastered-word count the evaluation of endSession, with its inline ladder,
\* and the hook's checkLevelProgression, with LEVEL_REQUIREMENTS, compute the
\* same qualified level, write the same profile.level and insert the same
\* achievement rows.
EvaluatorsAgree ==
    LET masteredWords == MasteredWords(word_progress, otherMastered)
        ev == SessionCheckLevelProgression(profile, masteredWords)
        qualifiedLevel == QualifiedLevel(masteredWords, profile)
        levelUp == qualifiedLevel > profile.level
    IN
    /\ ev.qualifiedLevel = qualifiedLevel
    /\ ev.profile = (IF levelUp THEN updateUserLevel(profile, qualifiedLevel) ELSE profile)
    /\ ev.inserted = (IF levelUp THEN awardLevelUpAchievement(qualifiedLevel) ELSE <<>>)

\* C24: while level evaluations of the same user overlap, each reading the
\* profile and the mastered words and writing profile.level in a later step,
\* and a stats update lowers accuracy_rate between their reads, the persisted
\* profile.level never decreases from one state to the next.
LevelStableUnderOverlap == [][profile'.level >= profile.level]_vars

\* the rows of table achievements with the given type and description
AchievementRows(type, description) ==
    {i \in 1..Len(achievements) :
        /\ achievements[i].achievement_type = type
        /\ achievements[i].description = description}

\* C25: however the evaluations of the mounted components, of
\* fetchUserProgress and of endSession overlap, table achievements holds at
\* most one level_up row for a given new level, at most one milestone row
\* for level 5 and at most one for level 10.
OneRecordPerLevelUnderOverlap ==
    /\ \A L \in 1..Len(LEVEL_REQUIREMENTS) :
           Cardinality(AchievementRows("level_up", LevelUpDescription(L))) <= 1
    /\ Cardinality(AchievementRows("milestone", Level5Description)) <= 1
    /\ Cardinality(AchievementRows("milestone", Level10Description)) <= 1

\* C28: every level_up row of table achievements names a level no higher
\* than the persisted profile.level, also after an evaluation whose update
\* of profile.level returned an error.
LevelUpOnlyWithLevelWrite ==
    \A i \in 1..Len(achievements) :
        achievements[i].achievement_type = "level_up" =>
            \E L \in 1..profile.level : achievements[i].title = LevelUpTitle(L)

----------------------------------------------------------------------------
(* Properties of the Daily Goal Tracker *)

\* C9: every daily_goals row, created at registration, created by
\* updateDailyGoals or updated by it, has completed = (current_value >= target_value).
CompletedFlagMatches ==
    \A g \in daily_goals : g.completed = (g.current_value >= g.target_value)

\* rows of the registration date after a session: the words goal updated and
\* still open, the accuracy goal updated and completed
CompletedFlagMatchesWitness ==
    /\ learning_sessions # <<>>
    /\ \E g \in daily_goals :
        g.goal_type = "words" /\ g.target_value = 10 /\ g.current_value = 2 /\ ~g.completed
    /\ \E g \in daily_goals :
        g.goal_type = "accuracy" /\ g.current_value = 100 /\ g.completed

RECURSIVE SumWords(_)
SumWords(rows) ==
    IF rows = <<>> THEN 0 ELSE Len(Head(rows).words_practiced) + SumWords(Tail(rows))

RECURSIVE SumMinutes(_)
SumMinutes(rows) ==
    IF rows = <<>> THEN 0 ELSE (Head(rows).session_duration \div 60) + SumMinutes(Tail(rows))

SessionFloorAccuracy(row) ==
    IF row.total_attempts = 0 THEN 0
    ELSE (100 * row.correct_pronunciations) \div row.total_attempts

RECURSIVE MaxFloorAccuracy(_)
MaxFloorAccuracy(rows) ==
    IF rows = <<>> THEN 0
    ELSE Max(SessionFloorAccuracy(Head(rows)), MaxFloorAccuracy(Tail(rows)))

GoalValue(t) == (CHOOSE g \in daily_goals : g.goal_type = t).current_value

\* C10: after each endSession of the date the three goal rows exist and hold
\* the sum of wordsPracticed.length, the sum of floor(duration / 60) and the
\* maximum of floor(accuracy) over the date's sessions.
GoalsSumTheDay ==
    learning_sessions # <<>> =>
        /\ \A t \in GoalTypes : Cardinality({g \in daily_goals : g.goal_type = t}) = 1
        /\ GoalValue("words") = SumWords(learning_sessions)
        /\ GoalValue("time") = SumMinutes(learning_sessions)
        /\ GoalValue("accuracy") = MaxFloorAccuracy(learning_sessions)

\* two sessions, created by the first: 59 s and 61 s, the better accuracy first
GoalsSumTheDayWitness ==
    /\ Len(learning_sessions) = 2
    /\ \E g \in daily_goals : g.goal_type = "words" /\ g.target_value # 10
    /\ learning_sessions[1].session_duration + learning_sessions[2].session_duration = 120
    /\ GoalValue("time") = 1
    /\ GoalValue("words") = 2
    /\ SessionFloorAccuracy(learning_sessions[2]) = 0
    /\ GoalValue("accuracy") = 100

----------------------------------------------------------------------------
(* Properties of the Streak Tracker *)

\* C12: endSession increments current_streak only if, after its daily goals
\* step, today's words goal is completed: the current_value of the words row,
\* which includes this session, is >= the daily word target. A session that
\* leaves the day's words total below the target does not advance the streak.
StreakOnlyWhenGoalCompleted ==
    [][profile'.current_streak # profile.current_streak =>
         \E g \in daily_goals' :
             /\ g.goal_type = "words"
             /\ \/ g.completed
                \/ g.current_value >= g.target_value
                \/ g.current_value >= DailyWordGoal(settings')]_vars

\* C13: every streak advance sets current_streak to its old value + 1 and
\* longest_streak to max(old longest_streak, new current_streak); no operation
\* changes the two in another way, so current_streak never decreases, and
\* longest_streak >= current_streak holds in every reachable state.
StreakAdvancesByOne ==
    /\ [](profile.longest_streak >= profile.current_streak)
    /\ [][\/ /\ profile'.current_streak = profile.current_streak
             /\ profile'.longest_streak = profile.longest_streak
          \/ /\ profile'.current_streak = profile.current_streak + 1
             /\ profile'.longest_streak =
                    Max(profile.longest_streak, profile'.current_streak)]_vars

\* a streak of 2 with longest streak 5 has advanced to 3, the longest is kept
StreakAdvancesByOneWitness ==
    /\ learning_sessions # <<>>
    /\ profile.current_streak = 3
    /\ profile.longest_streak = 5

\* today's words goal row is completed
WordsGoalMet(goals) ==
    \E g \in goals : g.goal_type = "words" /\ g.completed

----------------------------------------------------------------------------
(* Properties of the Session Recorder and the Aggregate Stats Updater *)

LastRow(rows) == rows[Len(rows)]

RECURSIVE SumSeconds(_)
SumSeconds(rows) ==
    IF rows = <<>> THEN 0 ELSE Head(rows).session_duration + SumSeconds(Tail(rows))

\* the histories of a user whose profile totals start at 0
NewUser == otherMastered = 0

\* C17: each endSession adds wordsPracticed.length, duplicates counted, to
\* total_words_learned and the duration in seconds to total_practice_time; no
\* other operation changes the totals, so they never decrease, and for a user
\* who started at 0 they are the sums over the learning_sessions rows.
TotalsSumTheSessions ==
    /\ [](NewUser =>
            /\ profile.total_words_learned = SumWords(learning_sessions)
            /\ profile.total_practice_time = SumSeconds(learning_sessions))
    /\ [][IF learning_sessions' # learning_sessions
          THEN /\ profile'.total_words_learned = profile.total_words_learned
                      + Len(LastRow(learning_sessions').words_practiced)
               /\ profile'.total_practice_time = profile.total_practice_time
                      + LastRow(learning_sessions').session_duration
          ELSE /\ profile'.total_words_learned = profile.total_words_learned
               /\ profile'.total_practice_time = profile.total_practice_time]_vars

\* two sessions of a new user on the same word: the totals count both
\* attempts and both durations
TotalsSumTheSessionsWitness ==
    /\ NewUser
    /\ Len(learning_sessions) = 2
    /\ learning_sessions[1].words_practiced = <<"Cat">>
    /\ learning_sessions[2].words_practiced = <<"Cat">>
    /\ profile.total_words_learned = 2
    /\ profile.total_practice_time = 120

\* C18: each stats update sets accuracy_rate to (old accuracy_rate + session
\* accuracy) / 2, stored at the two decimals of the column; the session
\* accuracy is within 0..100, so accuracy_rate stays within 0..100 and lies
\* between the old rate and the session accuracy. Rates are in hundredths,
\* the session accuracy is 100 * c / t.
AccuracyIsAveraged ==
    /\ [](profile.accuracy_rate \in 0..10000)
    /\ [][IF learning_sessions' # learning_sessions
          THEN LET row == LastRow(learning_sessions')
                   c == row.correct_pronunciations
                   t == IF row.total_attempts = 0 THEN 1 ELSE row.total_attempts
                   old == profile.accuracy_rate
                   new == profile'.accuracy_rate
               IN /\ 0 <= c /\ c <= t
                  /\ 2 * new * t - (old * t + 10000 * c) <= t
                  /\ (old * t + 10000 * c) - 2 * new * t <= t
                  /\ Min(old * t, 10000 * c) <= new * t
                  /\ new * t <= Max(old * t, 10000 * c)
          ELSE profile'.accuracy_rate = profile.accuracy_rate]_vars

\* 95.01 averaged with a session of 100 is stored as 97.51
AccuracyIsAveragedWitness ==
    /\ Len(learning_sessions) = 1
    /\ learning_sessions[1].accuracy_rate = 10000
    /\ profile.accuracy_rate = 9751

----------------------------------------------------------------------------
(* Properties of endSession and its steps *)

\* an endSession call has returned its inserted row and no later call is running
ReturnedData ==
    /\ ending = NotEnding
    /\ lastOp.op = "endSession returned"
    /\ lastOp.data # NoData

GoalRows(goals, t) == {g \in goals : g.goal_type = t}

StepTaken ==
    IF ending = NotEnding THEN "insert" ELSE ending[1].pc

\* C14: in every endSession call of a signed-in user the steps take effect one
\* after the other in the order insert, stats, daily goals, streak, level, each
\* writing its own tables only; so in a call without a failing step the streak
\* step has read the goal values merged for this session and the level
\* evaluation the accuracy_rate, practice time and current_streak updated for
\* this session.
StepsInOrder ==
    /\ [][ending' # ending =>
            /\ StepTaken = "insert" =>
                /\ ending'[1].pc = "stats"
                /\ learning_sessions' = Append(learning_sessions, ending'[1].data)
                /\ UNCHANGED <<profile, daily_goals, achievements>>
            /\ StepTaken = "stats" =>
                /\ ending' # NotEnding /\ ending'[1].pc = "goals"
                /\ UNCHANGED <<learning_sessions, daily_goals, achievements>>
                /\ UNCHANGED <<profile.current_streak, profile.level>>
            /\ StepTaken = "goals" =>
                /\ ending' # NotEnding /\ ending'[1].pc = "streak"
                /\ UNCHANGED <<learning_sessions, profile, achievements>>
            /\ StepTaken = "streak" =>
                /\ ending' # NotEnding /\ ending'[1].pc = "level"
                /\ UNCHANGED <<learning_sessions, daily_goals, achievements>>
                /\ UNCHANGED <<profile.accuracy_rate, profile.total_practice_time,
                               profile.total_words_learned, profile.level>>
            /\ StepTaken = "level" =>
                /\ ending' = NotEnding
                /\ UNCHANGED <<learning_sessions, daily_goals>>
                /\ UNCHANGED <<profile.accuracy_rate, profile.total_practice_time,
                               profile.total_words_learned, profile.current_streak>>]_vars
    /\ []((ReturnedData /\ lastOp.failed = {}) =>
            LET row == lastOp.data[1]
                wordsLearned == Len(row.words_practiced)
                before == lastOp.before
                merged == IF GoalRows(daily_goals, "words") = {} THEN 0
                          ELSE (CHOOSE g \in GoalRows(daily_goals, "words") : TRUE).current_value
                advanced == /\ settings # NoSettings
                            /\ merged + wordsLearned >= DailyWordGoal(settings)
            IN
            /\ profile.total_practice_time =
                   before.profile.total_practice_time + row.session_duration
            /\ daily_goals = updateDailyGoals(before.daily_goals, settings, wordsLearned,
                                              row.session_duration, RowAccuracy(row))
            /\ profile.current_streak =
                   before.profile.current_streak + (IF advanced THEN 1 ELSE 0)
            /\ profile.level =
                   Max(before.profile.level,
                       SessionQualifiedLevel(MasteredWords(word_progress, otherMastered),
                                             profile)))

\* a call raised the level to 2 on the practice time, the accuracy and the
\* streak that its own earlier steps had written
StepsInOrderWitness ==
    /\ ReturnedData
    /\ lastOp.failed = {}
    /\ lastOp.before.profile.level = 1
    /\ lastOp.before.profile.current_streak = 2
    /\ lastOp.before.profile.total_practice_time = 1799
    /\ profile.level = 2
    /\ lastOp.levelWrites = 1

AccuracyWithinRange ==
    /\ session # NoSession =>
        LET s == session[1]
            a == AccuracyRate(s)
        IN /\ s.totalAttempts = Len(s.wordsPracticed)
           /\ 0 <= s.correctPronunciations
           /\ s.correctPronunciations <= s.totalAttempts
           /\ a[2] > 0
           /\ 0 <= a[1] /\ a[1] <= 100 * a[2]
           /\ s.totalAttempts > 0 =>
                  a[1] * s.totalAttempts = 100 * s.correctPronunciations * a[2]
           /\ s.totalAttempts = 0 => a[1] = 0
    /\ \A i \in 1..Len(learning_sessions) :
        LET row == learning_sessions[i] IN
        /\ row.accuracy_rate \in 0..10000
        /\ row.total_attempts = 0 => row.accuracy_rate = 0
        /\ row.total_attempts > 0 =>
               /\ 2 * (row.accuracy_rate * row.total_attempts
                       - 10000 * row.correct_pronunciations) <= row.total_attempts
               /\ 2 * (10000 * row.correct_pronunciations
                       - row.accuracy_rate * row.total_attempts) <= row.total_attempts

\* endSession on an accumulator without attempts has returned its row, with
\* accuracy 0
AccuracyWithinRangeWitness ==
    /\ ReturnedData
    /\ lastOp.data[1].total_attempts = 0
    /\ lastOp.data[1].accuracy_rate = 0
    /\ lastOp.data[1].words_practiced = <<>>

\* the tables that endSession writes
Written == <<learning_sessions, profile, daily_goals, achievements>>

\* C20: endSession without a signed-in user returns an error result, with no
\* data, and writes nothing: no learning_sessions row is inserted and
\* profile (stats, streak, level), daily_goals and achievements are unchanged.
NoUserNoWrite ==
    [][(~user /\ session # NoSession /\ session' = NoSession) =>
           /\ lastOp'.op = "endSession returned"
           /\ lastOp'.error = <<"No user">>
           /\ lastOp'.data = NoData
           /\ ending' = NotEnding
           /\ Written' = Written]_vars

\* the call of a signed-out user has returned the error; the tables are as
\* at registration
NoUserNoWriteWitness ==
    /\ ~user
    /\ session = NoSession
    /\ lastOp.op = "endSession returned"
    /\ lastOp.error = <<"No user">>
    /\ learning_sessions = <<>>
    /\ profile = NewProfile
    /\ daily_goals = RegistrationGoals

\* C29: when the insert of the learning session row fails, endSession returns
\* { data: null, error } and runs none of the four downstream steps: the
\* totals, accuracy_rate, the streaks and the level of the profile, the day's
\* goal rows and the achievements are as before the call, and no row is added.
InsertFailureStopsEndSession ==
    /\ []((ending = NotEnding /\ lastOp.op = "endSession returned"
                              /\ "insert" \in lastOp.failed) =>
            /\ lastOp.data = NoData
            /\ lastOp.error # NoError
            /\ profile = lastOp.before.profile
            /\ daily_goals = lastOp.before.daily_goals)
    /\ [][(user /\ ending = NotEnding /\ session # NoSession /\ session' = NoSession
               /\ learning_sessions' = learning_sessions) =>
            /\ lastOp'.op = "endSession returned"
            /\ lastOp'.data = NoData
            /\ lastOp'.error # NoError
            /\ ending' = NotEnding
            /\ Written' = Written]_vars

\* the insert of a session with an attempt failed after an earlier session
\* of the date was saved: the call returned the error, the tables are as the
\* earlier session left them
InsertFailureStopsEndSessionWitness ==
    /\ ending = NotEnding
    /\ lastOp.op = "endSession returned"
    /\ lastOp.failed = {"insert"}
    /\ lastOp.data = NoData
    /\ Len(learning_sessions) = 1
    /\ ExecutedTotal = 2
    /\ profile.total_words_learned = 1
    /\ profile = lastOp.before.profile

----------------------------------------------------------------------------
(* Properties of the session accumulator *)

----------------------------------------------------------------------------
(* The ladder walk on its own: every combination of the four metrics at, and *)
(* just below, the thresholds of the ladder                                  *)

LadderLevels == 1..Len(LEVEL_REQUIREMENTS)

LadderWords ==
    {LEVEL_REQUIREMENTS[i].minWordsLearned : i \in LadderLevels} \cup {24, 1499}
LadderAccuracy ==
    {100 * LEVEL_REQUIREMENTS[i].minAccuracy : i \in LadderLevels} \cup {5999, 9499}
LadderStreak ==
    {LEVEL_REQUIREMENTS[i].minStreakDays : i \in LadderLevels} \cup {2, 119}
LadderSeconds ==
    {60 * LEVEL_REQUIREMENTS[i].minPracticeTime : i \in LadderLevels} \cup {1799, 119999}

InitLadder ==
    /\ \E a \in LadderAccuracy, st \in LadderStreak, t \in LadderSeconds :
        profile = [level |-> 1, total_words_learned |-> 0, total_practice_time |-> t,
                   accuracy_rate |-> a, current_streak |-> st, longest_streak |-> st]
    /\ otherMastered \in LadderWords
    /\ word_progress = <<>>
    /\ daily_goals = NoGoals
    /\ achievements = <<>>
    /\ learning_sessions = <<>>
    /\ settings = NoSettings
    /\ session = NoSession
    /\ pending = [c \in Calls |-> 0]
    /\ issued = [w \in LowerWords |-> <<0, 0>>]
    /\ executed = [w \in LowerWords |-> <<0, 0>>]
    /\ raced = [w \in LowerWords |-> FALSE]
    /\ currentLevel = 1
    /\ nextLevelRequirements = 0
    /\ progressToNextLevel = 0
    /\ lastOp = NoOp
    /\ user = TRUE
    /\ ending = NotEnding
    /\ evals = NoEvals

NextLadder == CheckLevelProgression

SpecLadder == InitLadder /\ [][NextLadder]_vars

\* the four thresholds of level L, as the specification states them
MeetsLevel(L) ==
    LET r == LEVEL_REQUIREMENTS[L] IN
    /\ MasteredWords(word_progress, otherMastered) >= r.minWordsLearned
    /\ profile.accuracy_rate >= 100 * r.minAccuracy
    /\ profile.current_streak >= r.minStreakDays
    /\ profile.total_practice_time \div 60 >= r.minPracticeTime

SetMax(S) == CHOOSE x \in S : \A y \in S : y <= x

\* C2: the qualified level of the ladder walk is the highest L such that the
\* thresholds of every level 1..L are met; the ladder is non-decreasing in
\* each threshold, so this is also the highest level whose own thresholds
\* are met, and meeting level L implies meeting every level below L.
LadderWalkIsHighest ==
    /\ \A i, j \in LadderLevels :
        i <= j =>
            /\ LEVEL_REQUIREMENTS[i].level = i
            /\ LEVEL_REQUIREMENTS[i].minWordsLearned <= LEVEL_REQUIREMENTS[j].minWordsLearned
            /\ LEVEL_REQUIREMENTS[i].minAccuracy <= LEVEL_REQUIREMENTS[j].minAccuracy
            /\ LEVEL_REQUIREMENTS[i].minStreakDays <= LEVEL_REQUIREMENTS[j].minStreakDays
            /\ LEVEL_REQUIREMENTS[i].minPracticeTime <= LEVEL_REQUIREMENTS[j].minPracticeTime
    /\ lastOp.op = "checkLevelProgression" =>
        /\ lastOp.qualifiedLevel =
               SetMax({L \in LadderLevels : \A k \in 1..L : MeetsLevel(k)})
        /\ lastOp.qualifiedLevel = SetMax({L \in LadderLevels : MeetsLevel(L)})
        /\ \A L \in LadderLevels : MeetsLevel(L) => \A k \in 1..L : MeetsLevel(k)

\* accuracy exactly at the threshold of level 4 holds back a user whose other
\* metrics meet level 10
LadderWalkIsHighestWitness ==
    /\ lastOp.op = "checkLevelProgression"
    /\ lastOp.qualifiedLevel = 4
    /\ profile.accuracy_rate = 7500
    /\ otherMastered = 1500
    /\ profile.current_streak = 120
    /\ profile.total_practice_time = 120000

====
